---------------------------- MODULE Spec2Model ----------------------------
(***************************************************************************)
(* Model of app.py (product-photo-studio): the credit ledger, the Stripe   *)
(* reconciliation handlers and the mobile upload-token handoff.            *)
(*                                                                         *)
(* Every HTTP request runs in its own SQLAlchemy session.  A handler reads *)
(* a row into its session (a snapshot), assigns attributes on the loaded   *)
(* object and commits; the commit's UPDATE carries only the attributes     *)
(* whose value differs from the snapshot.  Requests are served by threads, *)
(* so the steps of different requests interleave at every database or      *)
(* external call.                                                          *)
(***************************************************************************)
EXTENDS Integers, Sequences, FiniteSets, TLC

(***************************************************************************)
(* Bounds of the model.                                                    *)
(***************************************************************************)
NumUsers == 2
MaxReqs == 2
MaxTokens == 2

(***************************************************************************)
(* Program constants.                                                      *)
(***************************************************************************)
CREDITS_PER_IMAGE == 500

PLAN_CREDITS ==
    [free |-> 10000, starter |-> 120000, creator |-> 300000,
     enterprise |-> 800000, legacy_pro |-> 200000]

Tiers == DOMAIN PLAN_CREDITS

PRICE_ID_TO_TIER ==
    [price_starter_monthly |-> "starter",
     price_creator_monthly |-> "creator",
     price_enterprise_monthly |-> "enterprise",
     price_starter_annual |-> "starter",
     price_creator_annual |-> "creator",
     price_enterprise_annual |-> "enterprise"]

\* A price the map does not know, and a missing price (price_id = None).
OtherPrices == {"price_unlisted", "None"}

\* Mutant: the fallback tier is the cheapest one.
TierOfPriceDefaultStarter(p) ==
    IF p \in DOMAIN PRICE_ID_TO_TIER THEN PRICE_ID_TO_TIER[p] ELSE "starter"

\* PRICE_ID_TO_TIER.get(price_id, 'creator')
TierOfPrice(p) ==
    IF p \in DOMAIN PRICE_ID_TO_TIER THEN PRICE_ID_TO_TIER[p] ELSE "creator"

\* price_id_map.get(plan) of upgrade(): the requests exercised ask for the
\* starter plan billed monthly or the creator plan billed annually.
UpgradePrices == {"price_starter_monthly", "price_creator_annual"}

\* status in ("active", "trialing")
ActiveStatuses == {"active", "trialing"}
Statuses == ActiveStatuses \cup {"canceled"}

\* A NULL column / Python None for an integer-valued reference.
NULL == 0

Users == 1..NumUsers
Reqs == 1..MaxReqs

Max(a, b) == IF a >= b THEN a ELSE b

VARIABLES
    accounts,     \* table user: id -> row
    generations,  \* table generation: sequence of rows, in insertion order
    customers,    \* Stripe customers: customers[c] = the user whose email it carries
    sessions,     \* Stripe checkout sessions: set of [customer, price]
    tokens,       \* table mobile_upload_token: sequence of rows, by token
    reqs,         \* requests: slot -> the handler's position and locals
    resp,         \* HTTP status of the most recently finished request
    polled,       \* body of the most recent mobile_status answer
    base,         \* history: balance of an account at the last grant (or at Init)
    spends,       \* history: debits committed on an account since then
    lastApplied,  \* history: the last reconciler event committed on an account,
                  \* and whether its handler ran on the current row and no
                  \* other write has reached the row since
    deposits,     \* history: deposits that answered success, by token
    ignored,      \* history: customers named by a webhook that was
                  \* acknowledged while no account carried them
    refused       \* history: by token, whether a deposit on it was answered 410

vars == <<accounts, generations, customers, sessions, tokens, reqs, resp,
          polled, base, spends, lastApplied, deposits, ignored,
          refused>>

(***************************************************************************)
(* Rows.                                                                   *)
(***************************************************************************)
\* signup(): a new account.
FreshRow ==
    [plan_tier |-> "free", is_subscribed |-> FALSE,
     credits_remaining |-> PLAN_CREDITS["free"],
     credits_limit |-> PLAN_CREDITS["free"],
     stripe_customer_id |-> NULL, generation_count |-> 0]

NoRow ==
    [plan_tier |-> "none", is_subscribed |-> FALSE, credits_remaining |-> 0,
     credits_limit |-> 0, stripe_customer_id |-> NULL, generation_count |-> 0]

\* The UPDATE a commit emits: only the attributes of the object that differ
\* from the values loaded into the session are written to the row.
Flush(row, snap, obj) ==
    [a \in DOMAIN row |-> IF obj[a] # snap[a] THEN obj[a] ELSE row[a]]

\* An image path under UPLOAD_FOLDER: mobile_<token>_<filename>.
NoPath == [token |-> NULL, name |-> "None"]

NoToken == [used |-> FALSE, image_path |-> NoPath, user_id |-> NULL]

NoAnswer == [ok |-> FALSE, ready |-> FALSE, image_url |-> NoPath]

NoEvent == [kind |-> "none", cust |-> NULL, tier |-> "none", active |-> FALSE]

Idle ==
    [kind |-> "none", pc |-> "idle", user |-> NULL, target |-> NULL,
     snap |-> NoRow, cust |-> NULL, price |-> "None", tier |-> "none",
     active |-> FALSE,
     result |-> "none", tsnap |-> NoToken, file |-> "None"]

Done == [Idle EXCEPT !.pc = "done"]

\* Slots are taken in order.
CanStart(r) ==
    /\ reqs[r].pc = "idle"
    /\ r > 1 => reqs[r - 1].pc # "idle"

Finish(r, code, view) ==
    /\ reqs' = [reqs EXCEPT ![r] = Done]
    /\ resp' = [status |-> code, view |-> view]

UNCHANGED_HIST == UNCHANGED <<base, spends, lastApplied, ignored>>
UNCHANGED_STRIPE == UNCHANGED <<customers, sessions>>
UNCHANGED_HANDOFF == UNCHANGED <<tokens, polled, deposits, refused>>
UNCHANGED_LEDGER ==
    /\ UNCHANGED <<accounts, generations>>
    /\ UNCHANGED_STRIPE /\ UNCHANGED_HIST

(***************************************************************************)
(* transform(): check credits, call the generator, record and debit.       *)
(***************************************************************************)
\* Mutant: the balance must exceed the cost.
AuthorizeAboveCost(row) == row.credits_remaining > CREDITS_PER_IMAGE

\* if current_user.credits_remaining < CREDITS_PER_IMAGE: redirect to upgrade
Authorize(row) == row.credits_remaining >= CREDITS_PER_IMAGE

\* max(0, current_user.credits_remaining - CREDITS_PER_IMAGE), count + 1
Debit(row) ==
    [row EXCEPT
        !.credits_remaining = Max(0, row.credits_remaining - CREDITS_PER_IMAGE),
        !.generation_count = row.generation_count + 1]

\* current_user is loaded; the credit check and the uploaded file are examined.
TransformLoad(r) ==
    /\ CanStart(r)
    /\ \E u \in Users, hasFile \in BOOLEAN :
         IF ~Authorize(accounts[u])
         THEN Finish(r, 302, "upgrade")
         ELSE IF ~hasFile
         THEN Finish(r, 302, "index")
         ELSE /\ reqs' = [reqs EXCEPT ![r] =
                    [Idle EXCEPT !.kind = "transform", !.pc = "generate",
                                 !.user = u, !.target = u,
                                 !.snap = accounts[u]]]
              /\ UNCHANGED resp
    /\ UNCHANGED <<accounts, generations>>
    /\ UNCHANGED_STRIPE /\ UNCHANGED_HIST /\ UNCHANGED_HANDOFF

\* Mutant: the response is not examined for an image part.
TransformGenerateUnchecked(r) ==
    /\ reqs[r].kind = "transform" /\ reqs[r].pc = "generate"
    /\ \E result \in {"image", "empty", "raise"} :
         IF result # "raise"
         THEN /\ reqs' = [reqs EXCEPT ![r].pc = "commit",
                                      ![r].result = result]
              /\ UNCHANGED resp
         ELSE Finish(r, 200, "index_error")
    /\ UNCHANGED <<accounts, generations>>
    /\ UNCHANGED_STRIPE /\ UNCHANGED_HIST /\ UNCHANGED_HANDOFF

\* client.models.generate_content: an image, no image part, or an exception.
TransformGenerate(r) ==
    /\ reqs[r].kind = "transform" /\ reqs[r].pc = "generate"
    /\ \E result \in {"image", "empty", "raise"} :
         IF result = "image"
         THEN /\ reqs' = [reqs EXCEPT ![r].pc = "commit",
                                      ![r].result = result]
              /\ UNCHANGED resp
         ELSE Finish(r, 200, "index_error")
    /\ UNCHANGED <<accounts, generations>>
    /\ UNCHANGED_STRIPE /\ UNCHANGED_HIST /\ UNCHANGED_HANDOFF

\* Mutant: the debit is issued relative to the row (credits_remaining =
\* credits_remaining - cost) and without the floor.
TransformCommitRelative(r) ==
    /\ reqs[r].kind = "transform" /\ reqs[r].pc = "commit"
    /\ LET u == reqs[r].target
       IN /\ generations' = Append(generations, [user_id |-> u, src |-> r])
          /\ accounts' = [accounts EXCEPT
                ![u].credits_remaining = @ - CREDITS_PER_IMAGE,
                ![u].generation_count = @ + 1]
          /\ spends' = [spends EXCEPT ![u] = @ + 1]
          /\ lastApplied' = [lastApplied EXCEPT ![u].clean = FALSE]
    /\ Finish(r, 200, "index_output")
    /\ UNCHANGED <<base, ignored>>
    /\ UNCHANGED_STRIPE /\ UNCHANGED_HANDOFF

\* Mutant: the debit is committed on its own; the record is left for a
\* second commit.
TransformCommitDebitFirst(r) ==
    /\ reqs[r].kind = "transform" /\ reqs[r].pc = "commit"
    /\ LET u == reqs[r].target
           snap == reqs[r].snap
       IN /\ accounts' = [accounts EXCEPT ![u] = Flush(@, snap, Debit(snap))]
          /\ spends' = [spends EXCEPT ![u] = @ + 1]
          /\ lastApplied' = [lastApplied EXCEPT ![u].clean = FALSE]
    /\ reqs' = [reqs EXCEPT ![r].pc = "record"]
    /\ UNCHANGED <<generations, resp, base, ignored>>
    /\ UNCHANGED_STRIPE /\ UNCHANGED_HANDOFF

\* db.session.add(generation); deduct credits; db.session.commit()
TransformCommit(r) ==
    /\ reqs[r].kind = "transform" /\ reqs[r].pc = "commit"
    /\ LET u == reqs[r].target
           snap == reqs[r].snap
       IN /\ generations' = Append(generations, [user_id |-> u, src |-> r])
          /\ accounts' = [accounts EXCEPT ![u] = Flush(@, snap, Debit(snap))]
          /\ spends' = [spends EXCEPT ![u] = @ + 1]
          /\ lastApplied' = [lastApplied EXCEPT ![u].clean = FALSE]
    /\ Finish(r, 200, "index_output")
    /\ UNCHANGED <<base, ignored>>
    /\ UNCHANGED_STRIPE /\ UNCHANGED_HANDOFF


(***************************************************************************)
(* ensure_stripe_customer(), called by upgrade() and billing_portal().     *)
(***************************************************************************)
\* user.stripe_customer_id = customer.id
BindAssign(row, c) == [row EXCEPT !.stripe_customer_id = c]

\* current_user is loaded; upgrade() turns a subscriber or an unknown plan
\* away; ensure_stripe_customer returns the loaded reference when there is one.
EnsureLoad(r) ==
    /\ CanStart(r)
    /\ \E u \in Users, k \in {"upgrade", "portal"}, knownPlan \in BOOLEAN :
         LET snap == accounts[u]
             turnedAway == k = "upgrade" /\ (snap.is_subscribed \/ ~knownPlan)
         IN IF turnedAway
            THEN Finish(r, 302, "redirect")
            ELSE /\ reqs' = [reqs EXCEPT ![r] =
                       [Idle EXCEPT
                          !.kind = k, !.user = u, !.target = u, !.snap = snap,
                          !.cust = snap.stripe_customer_id,
                          !.pc = IF snap.stripe_customer_id # NULL
                                 THEN "session" ELSE "create"]]
                 /\ UNCHANGED resp
    /\ UNCHANGED <<accounts, generations>>
    /\ UNCHANGED_STRIPE /\ UNCHANGED_HIST /\ UNCHANGED_HANDOFF

\* stripe.Customer.create(email=user.email): a new customer, or an error.
CreateCustomer(r) ==
    /\ reqs[r].kind \in {"upgrade", "portal"} /\ reqs[r].pc = "create"
    /\ \/ /\ customers' = Append(customers, reqs[r].user)
          /\ reqs' = [reqs EXCEPT ![r].cust = Len(customers) + 1,
                                  ![r].pc = "bind"]
          /\ UNCHANGED resp
       \/ /\ Finish(r, 500, "error")
          /\ UNCHANGED customers
    /\ UNCHANGED <<accounts, generations, sessions>>
    /\ UNCHANGED_HIST /\ UNCHANGED_HANDOFF

\* user.stripe_customer_id = customer.id; db.session.commit()
BindCommit(r) ==
    /\ reqs[r].kind \in {"upgrade", "portal"} /\ reqs[r].pc = "bind"
    /\ LET u == reqs[r].target
           snap == reqs[r].snap
       IN /\ accounts' = [accounts EXCEPT
                 ![u] = Flush(@, snap, BindAssign(snap, reqs[r].cust))]
          /\ lastApplied' = [lastApplied EXCEPT ![u].clean = FALSE]
    /\ reqs' = [reqs EXCEPT ![r].pc = "reread"]
    /\ UNCHANGED <<generations, resp, base, spends, ignored>>
    /\ UNCHANGED_STRIPE /\ UNCHANGED_HANDOFF

\* return user.stripe_customer_id: the commit expired the object, so the
\* attribute is read from the row again.
BindReread(r) ==
    /\ reqs[r].kind \in {"upgrade", "portal"} /\ reqs[r].pc = "reread"
    /\ reqs' = [reqs EXCEPT
                  ![r].cust = accounts[reqs[r].target].stripe_customer_id,
                  ![r].pc = "session"]
    /\ UNCHANGED <<accounts, generations, resp>>
    /\ UNCHANGED_STRIPE /\ UNCHANGED_HIST /\ UNCHANGED_HANDOFF

\* stripe.checkout.Session.create with the price of the requested plan (the
\* request's plan and billing arguments are only used here), or
\* stripe.billing_portal.Session.create, which leaves no state behind.
CreateSession(r) ==
    /\ reqs[r].kind \in {"upgrade", "portal"} /\ reqs[r].pc = "session"
    /\ IF reqs[r].kind = "upgrade"
       THEN \E p \in UpgradePrices :
               sessions' = sessions \cup {[customer |-> reqs[r].cust,
                                            price |-> p]}
       ELSE UNCHANGED sessions
    /\ Finish(r, 303, "stripe")
    /\ UNCHANGED <<accounts, generations, customers>>
    /\ UNCHANGED_HIST /\ UNCHANGED_HANDOFF

(***************************************************************************)
(* The reconciler: post_checkout() and stripe_webhook().                   *)
(***************************************************************************)
\* User.query.filter_by(stripe_customer_id=customer_id): the matching rows.
ByCustomer(c) == {u \in Users : accounts[u].stripe_customer_id = c}

\* post_checkout(): the assignments of either branch (the bound account
\* already carries the reference, the logged-in one receives it).
PostCheckoutAssign(row, c, tier) ==
    [row EXCEPT !.stripe_customer_id = c,
                !.is_subscribed = TRUE,
                !.plan_tier = tier,
                !.credits_remaining = PLAN_CREDITS[tier],
                !.credits_limit = PLAN_CREDITS[tier]]

\* Mutant: the tier and the cap are set, the balance is left as it was.
WebhookCheckoutAssignKeepsBalance(row, tier) ==
    [row EXCEPT !.is_subscribed = TRUE,
                !.plan_tier = tier,
                !.credits_limit = PLAN_CREDITS[tier]]

\* stripe_webhook(), checkout.session.completed
WebhookCheckoutAssign(row, tier) ==
    [row EXCEPT !.is_subscribed = TRUE,
                !.plan_tier = tier,
                !.credits_remaining = PLAN_CREDITS[tier],
                !.credits_limit = PLAN_CREDITS[tier]]

\* Mutant: an active event adds the tier's credits to the balance.
SubscriptionAssignAdditive(row, tier, active) ==
    IF active
    THEN [row EXCEPT !.is_subscribed = TRUE,
                     !.plan_tier = tier,
                     !.credits_remaining = @ + PLAN_CREDITS[tier],
                     !.credits_limit = PLAN_CREDITS[tier]]
    ELSE [row EXCEPT !.is_subscribed = FALSE,
                     !.plan_tier = "free",
                     !.credits_remaining = PLAN_CREDITS["free"],
                     !.credits_limit = PLAN_CREDITS["free"]]

\* Mutant: an inactive status ends the subscription and leaves the plan and
\* the credits as they are.
SubscriptionAssignKeepsPlan(row, tier, active) ==
    IF active
    THEN [row EXCEPT !.is_subscribed = TRUE,
                     !.plan_tier = tier,
                     !.credits_remaining = PLAN_CREDITS[tier],
                     !.credits_limit = PLAN_CREDITS[tier]]
    ELSE [row EXCEPT !.is_subscribed = FALSE]

\* stripe_webhook(), customer.subscription.updated / deleted
SubscriptionAssign(row, tier, active) ==
    IF active
    THEN [row EXCEPT !.is_subscribed = TRUE,
                     !.plan_tier = tier,
                     !.credits_remaining = PLAN_CREDITS[tier],
                     !.credits_limit = PLAN_CREDITS[tier]]
    ELSE [row EXCEPT !.is_subscribed = FALSE,
                     !.plan_tier = "free",
                     !.credits_remaining = PLAN_CREDITS["free"],
                     !.credits_limit = PLAN_CREDITS["free"]]

\* The tier an event grants.
GrantedTier(ev) == IF ev.active THEN ev.tier ELSE "free"

\* The event a reconciler request carries.
EventOf(r) ==
    [kind |-> IF reqs[r].kind = "wh_subscription"
              THEN "subscription" ELSE "checkout",
     cust |-> reqs[r].cust, tier |-> reqs[r].tier, active |-> reqs[r].active]

\* The request is about to commit on a row it loaded and nobody has written
\* since.
Fresh(r) == reqs[r].snap = accounts[reqs[r].target]

\* History of the reconciler event request r commits.
Applied(r) ==
    LET u == reqs[r].target
    IN /\ lastApplied' = [lastApplied EXCEPT
                            ![u] = [ev |-> EventOf(r), clean |-> Fresh(r)]]
       /\ base' = [base EXCEPT ![u] = PLAN_CREDITS[GrantedTier(EventOf(r))]]
       /\ spends' = [spends EXCEPT ![u] = 0]
       /\ UNCHANGED ignored

\* session_id is missing or unknown, or Session.retrieve raises: redirect.
\* Otherwise the session's customer and the tier of its price are known.
PostCheckoutRetrieve(r) ==
    /\ CanStart(r)
    /\ \E u \in Users \cup {NULL} :
         \/ \E s \in sessions :
              /\ reqs' = [reqs EXCEPT ![r] =
                    [Idle EXCEPT !.kind = "post_checkout", !.pc = "query",
                                 !.user = u, !.cust = s.customer,
                                 !.price = s.price,
                                 !.tier = TierOfPrice(s.price),
                                 !.active = TRUE]]
              /\ UNCHANGED resp
         \/ Finish(r, 302, "redirect")
    /\ UNCHANGED <<accounts, generations>>
    /\ UNCHANGED_STRIPE /\ UNCHANGED_HIST /\ UNCHANGED_HANDOFF

\* user = User.query.filter_by(...).first(); elif current_user.is_authenticated
PostCheckoutQuery(r) ==
    /\ reqs[r].kind = "post_checkout" /\ reqs[r].pc = "query"
    /\ IF ByCustomer(reqs[r].cust) # {}
       THEN /\ \E u \in ByCustomer(reqs[r].cust) :
                 reqs' = [reqs EXCEPT ![r].target = u,
                                      ![r].snap = accounts[u],
                                      ![r].pc = "commit"]
            /\ UNCHANGED resp
       ELSE IF reqs[r].user # NULL
       THEN /\ reqs' = [reqs EXCEPT ![r].target = reqs[r].user,
                                    ![r].snap = accounts[reqs[r].user],
                                    ![r].pc = "commit"]
            /\ UNCHANGED resp
       ELSE Finish(r, 302, "upgraded")
    /\ UNCHANGED <<accounts, generations>>
    /\ UNCHANGED_STRIPE /\ UNCHANGED_HIST /\ UNCHANGED_HANDOFF

PostCheckoutCommit(r) ==
    /\ reqs[r].kind = "post_checkout" /\ reqs[r].pc = "commit"
    /\ LET u == reqs[r].target
           snap == reqs[r].snap
       IN /\ accounts' = [accounts EXCEPT ![u] =
                 Flush(@, snap,
                       PostCheckoutAssign(snap, reqs[r].cust, reqs[r].tier))]
          /\ Applied(r)
    /\ Finish(r, 302, "upgraded")
    /\ UNCHANGED generations
    /\ UNCHANGED_STRIPE /\ UNCHANGED_HANDOFF

\* Mutant: the event is applied before its signature is examined.
WebhookRejectedAfterUpdate(r) ==
    /\ CanStart(r)
    /\ \E u \in Users, status \in Statuses :
         accounts' = [accounts EXCEPT ![u] =
             SubscriptionAssign(@, "creator", status \in ActiveStatuses)]
    /\ Finish(r, 400, "json_error")
    /\ UNCHANGED generations
    /\ UNCHANGED_STRIPE /\ UNCHANGED_HIST /\ UNCHANGED_HANDOFF

\* stripe.Webhook.construct_event raises: 400, nothing else happens.
WebhookRejected(r) ==
    /\ CanStart(r)
    /\ Finish(r, 400, "json_error")
    /\ UNCHANGED <<accounts, generations>>
    /\ UNCHANGED_STRIPE /\ UNCHANGED_HIST /\ UNCHANGED_HANDOFF

\* A verified event of another type, or one that names no customer.
WebhookIgnored(r) ==
    /\ CanStart(r)
    /\ Finish(r, 200, "json_success")
    /\ UNCHANGED <<accounts, generations>>
    /\ UNCHANGED_STRIPE /\ UNCHANGED_HIST /\ UNCHANGED_HANDOFF

\* checkout.session.completed: Session.retrieve gives the price (an
\* exception is printed and the event acknowledged).
WebhookCheckoutRetrieve(r) ==
    /\ CanStart(r)
    /\ \/ \E s \in sessions :
            /\ reqs' = [reqs EXCEPT ![r] =
                  [Idle EXCEPT !.kind = "wh_checkout", !.pc = "query",
                               !.cust = s.customer,
                               !.price = s.price,
                               !.tier = TierOfPrice(s.price),
                               !.active = TRUE]]
            /\ UNCHANGED resp
       \/ /\ sessions # {}
          /\ Finish(r, 200, "json_success")
    /\ UNCHANGED <<accounts, generations>>
    /\ UNCHANGED_STRIPE /\ UNCHANGED_HIST /\ UNCHANGED_HANDOFF

\* Mutant: a customer no account carries is a server error.
WebhookCheckoutQueryFatal(r) ==
    /\ reqs[r].kind = "wh_checkout" /\ reqs[r].pc = "query"
    /\ IF ByCustomer(reqs[r].cust) # {}
       THEN /\ \E u \in ByCustomer(reqs[r].cust) :
                 reqs' = [reqs EXCEPT ![r].target = u,
                                      ![r].snap = accounts[u],
                                      ![r].pc = "commit"]
            /\ UNCHANGED <<resp, ignored>>
       ELSE /\ Finish(r, 500, "error")
            /\ ignored' = ignored \cup {reqs[r].cust}
    /\ UNCHANGED <<accounts, generations, base, spends, lastApplied>>
    /\ UNCHANGED_STRIPE /\ UNCHANGED_HANDOFF

\* user = User.query.filter_by(stripe_customer_id=customer_id).first()
WebhookCheckoutQuery(r) ==
    /\ reqs[r].kind = "wh_checkout" /\ reqs[r].pc = "query"
    /\ IF ByCustomer(reqs[r].cust) # {}
       THEN /\ \E u \in ByCustomer(reqs[r].cust) :
                 reqs' = [reqs EXCEPT ![r].target = u,
                                      ![r].snap = accounts[u],
                                      ![r].pc = "commit"]
            /\ UNCHANGED <<resp, ignored>>
       ELSE /\ Finish(r, 200, "json_success")
            /\ ignored' = ignored \cup {reqs[r].cust}
    /\ UNCHANGED <<accounts, generations, base, spends, lastApplied>>
    /\ UNCHANGED_STRIPE /\ UNCHANGED_HANDOFF

\* Mutant: the assignments reach every account (an UPDATE with no WHERE).
WebhookCheckoutCommitEveryAccount(r) ==
    /\ reqs[r].kind = "wh_checkout" /\ reqs[r].pc = "commit"
    /\ accounts' = [u \in Users |->
                       WebhookCheckoutAssign(accounts[u], reqs[r].tier)]
    /\ Applied(r)
    /\ Finish(r, 200, "json_success")
    /\ UNCHANGED generations
    /\ UNCHANGED_STRIPE /\ UNCHANGED_HANDOFF

\* the assignments of the checkout branch; db.session.commit()
WebhookCheckoutCommit(r) ==
    /\ reqs[r].kind = "wh_checkout" /\ reqs[r].pc = "commit"
    /\ LET u == reqs[r].target
           snap == reqs[r].snap
       IN /\ accounts' = [accounts EXCEPT ![u] =
                 Flush(@, snap, WebhookCheckoutAssign(snap, reqs[r].tier))]
          /\ Applied(r)
    /\ Finish(r, 200, "json_success")
    /\ UNCHANGED generations
    /\ UNCHANGED_STRIPE /\ UNCHANGED_HANDOFF

\* customer.subscription.updated / deleted for a customer Stripe knows: the
\* status and the first item's price come with the event; the account is
\* looked up at once.
WebhookSubscriptionQuery(r) ==
    /\ CanStart(r)
    /\ \E c \in 1..Len(customers), status \in Statuses,
          p \in DOMAIN PRICE_ID_TO_TIER \cup OtherPrices :
         IF ByCustomer(c) # {}
         THEN /\ \E u \in ByCustomer(c) :
                   reqs' = [reqs EXCEPT ![r] =
                      [Idle EXCEPT !.kind = "wh_subscription",
                                   !.pc = "commit", !.cust = c,
                                   !.price = p,
                                   !.tier = TierOfPrice(p),
                                   !.active = status \in ActiveStatuses,
                                   !.target = u, !.snap = accounts[u]]]
              /\ UNCHANGED <<resp, ignored>>
         ELSE /\ Finish(r, 200, "json_success")
              /\ ignored' = ignored \cup {c}
    /\ UNCHANGED <<accounts, generations, base, spends, lastApplied>>
    /\ UNCHANGED_STRIPE /\ UNCHANGED_HANDOFF

WebhookSubscriptionCommit(r) ==
    /\ reqs[r].kind = "wh_subscription" /\ reqs[r].pc = "commit"
    /\ LET u == reqs[r].target
           snap == reqs[r].snap
       IN /\ accounts' = [accounts EXCEPT ![u] =
                 Flush(@, snap,
                       SubscriptionAssign(snap, reqs[r].tier, reqs[r].active))]
          /\ Applied(r)
    /\ Finish(r, 200, "json_success")
    /\ UNCHANGED generations
    /\ UNCHANGED_STRIPE /\ UNCHANGED_HANDOFF

(***************************************************************************)
(* The mobile upload handoff: mobile_start(), mobile_upload_get(),         *)
(* mobile_upload_post() and mobile_status().                               *)
(***************************************************************************)
\* Token arguments of a request: the tokens that may exist, and one that
\* never does.
TokenArgs == 0..MaxTokens

\* MobileUploadToken.query.filter_by(token=token).first() finds a row.
Known(t) == t \in 1..Len(tokens)

\* Uploaded file names; "None" is a request without a file.
Filenames == {"a.jpg", "b.jpg", "../"}

\* werkzeug's secure_filename: a name made of separators only comes back empty.
SecureFilename(f) == IF f = "../" THEN "" ELSE f

\* secure_filename(f.filename) or f"{token}.jpg", under mobile_{token}_
UploadPath(t, f) ==
    [token |-> t,
     name |-> IF SecureFilename(f) = "" THEN "token.jpg" ELSE SecureFilename(f)]

\* t.image_path = ...; t.used = True
DepositAssign(row, path) == [row EXCEPT !.image_path = path, !.used = TRUE]

\* The body mobile_status() answers with.
StatusAnswer(t) ==
    IF ~Known(t) THEN [ok |-> FALSE, ready |-> FALSE, image_url |-> NoPath]
    ELSE IF tokens[t].used /\ tokens[t].image_path # NoPath
    THEN [ok |-> TRUE, ready |-> TRUE, image_url |-> tokens[t].image_path]
    ELSE [ok |-> TRUE, ready |-> FALSE, image_url |-> NoPath]

MobileStart ==
    /\ Len(tokens) < MaxTokens
    /\ \E u \in Users \cup {NULL} :
         tokens' = Append(tokens, [NoToken EXCEPT !.user_id = u])
    /\ deposits' = Append(deposits, 0)
    /\ refused' = Append(refused, FALSE)
    /\ resp' = [status |-> 200, view |-> "json_token"]
    /\ UNCHANGED <<reqs, polled>>
    /\ UNCHANGED_LEDGER

MobileUploadGet ==
    /\ \E t \in TokenArgs :
         resp' = IF ~Known(t) \/ tokens[t].used
                 THEN [status |-> 410, view |-> "expired_link"]
                 ELSE [status |-> 200, view |-> "upload_form"]
    /\ UNCHANGED reqs
    /\ UNCHANGED_HANDOFF /\ UNCHANGED_LEDGER

\* Mutant: only the token's existence is examined.
MobileUploadLoadAnyKnown(r) ==
    /\ CanStart(r)
    /\ \E t \in TokenArgs, f \in Filenames \cup {"None"} :
         IF ~Known(t)
         THEN Finish(r, 410, "expired") /\ UNCHANGED refused
         ELSE IF f = "None"
         THEN Finish(r, 200, "upload_form") /\ UNCHANGED refused
         ELSE /\ reqs' = [reqs EXCEPT ![r] =
                    [Idle EXCEPT !.kind = "mobile_upload", !.pc = "commit",
                                 !.target = t, !.tsnap = tokens[t],
                                 !.file = f]]
              /\ UNCHANGED <<resp, refused>>
    /\ UNCHANGED <<tokens, polled, deposits>>
    /\ UNCHANGED_LEDGER

\* The token is looked up; an unknown or used token is answered 410, a
\* request without a file gets the form again.
MobileUploadLoad(r) ==
    /\ CanStart(r)
    /\ \E t \in TokenArgs, f \in Filenames \cup {"None"} :
         IF ~Known(t) \/ tokens[t].used
         THEN /\ Finish(r, 410, "expired")
              /\ refused' = IF Known(t) THEN [refused EXCEPT ![t] = TRUE]
                                        ELSE refused
         ELSE IF f = "None"
         THEN Finish(r, 200, "upload_form") /\ UNCHANGED refused
         ELSE /\ reqs' = [reqs EXCEPT ![r] =
                    [Idle EXCEPT !.kind = "mobile_upload", !.pc = "commit",
                                 !.target = t, !.tsnap = tokens[t],
                                 !.file = f]]
              /\ UNCHANGED <<resp, refused>>
    /\ UNCHANGED <<tokens, polled, deposits>>
    /\ UNCHANGED_LEDGER

\* f.save(path); t.image_path = ...; t.used = True; db.session.commit()
MobileUploadCommit(r) ==
    /\ reqs[r].kind = "mobile_upload" /\ reqs[r].pc = "commit"
    /\ LET t == reqs[r].target
           snap == reqs[r].tsnap
       IN /\ tokens' = [tokens EXCEPT ![t] =
                 Flush(@, snap, DepositAssign(snap, UploadPath(t, reqs[r].file)))]
          /\ deposits' = [deposits EXCEPT ![t] = @ + 1]
    /\ Finish(r, 200, "upload_success")
    /\ UNCHANGED <<polled, refused>>
    /\ UNCHANGED_LEDGER

\* Mutant: a poll that finds the artifact hands the token back for another
\* upload.
MobileStatusConsuming ==
    /\ \E t \in TokenArgs :
         /\ polled' = StatusAnswer(t)
         /\ resp' = [status |-> IF Known(t) THEN 200 ELSE 404,
                     view |-> "json_status"]
         /\ tokens' = IF Known(t) /\ tokens[t].used
                      THEN [tokens EXCEPT ![t].used = FALSE]
                      ELSE tokens
    /\ UNCHANGED <<reqs, deposits, refused>>
    /\ UNCHANGED_LEDGER

MobileStatus ==
    /\ \E t \in TokenArgs :
         /\ polled' = StatusAnswer(t)
         /\ resp' = [status |-> IF Known(t) THEN 200 ELSE 404,
                     view |-> "json_status"]
    /\ UNCHANGED <<reqs, tokens, deposits, refused>>
    /\ UNCHANGED_LEDGER

(***************************************************************************)
(* Initial states: user 1 is a fresh account, an account that has spent    *)
(* all but one generation of its free credits, a subscriber whose checkout *)
(* has been confirmed, an account two of whose upgrades have raced, or an  *)
(* account whose customer has a session for a price outside the catalog;   *)
(* every other user has just signed up.                                    *)
(***************************************************************************)
SpentGenerations == (PLAN_CREDITS["free"] \div CREDITS_PER_IMAGE) - 1

SpentRow ==
    [FreshRow EXCEPT
        !.credits_remaining =
            PLAN_CREDITS["free"] - SpentGenerations * CREDITS_PER_IMAGE,
        !.generation_count = SpentGenerations]

SubscribedRow == PostCheckoutAssign(FreshRow, 1, "creator")

\* Two upgrade() calls of user 1 raced in ensure_stripe_customer: each created
\* a customer, the first went on to Checkout with its own, and the second's
\* commit replaced the reference on the row.
RacedRow == BindAssign(FreshRow, 2)

\* User 1 has opened the billing portal, which bound customer 1, and a
\* Checkout session of that customer exists for a price this application
\* does not sell.
PortalRow == BindAssign(FreshRow, 1)

Configs == {"fresh", "spent", "subscribed", "raced", "unlisted"}

InitWith(cfg) ==
    /\ reqs = [r \in Reqs |-> Idle]
    /\ resp = [status |-> 0, view |-> "none"]
    /\ tokens = <<>>
    /\ polled = NoAnswer
    /\ deposits = <<>>
    /\ refused = <<>>
    /\ spends = [u \in Users |-> 0]
    /\ accounts = [u \in Users |->
          IF u # 1 \/ cfg = "fresh" THEN FreshRow
          ELSE IF cfg = "spent" THEN SpentRow
          ELSE IF cfg = "raced" THEN RacedRow
          ELSE IF cfg = "unlisted" THEN PortalRow ELSE SubscribedRow]
    /\ generations =
          IF cfg = "spent"
          THEN [i \in 1..SpentGenerations |-> [user_id |-> 1, src |-> 0]]
          ELSE <<>>
    /\ customers = IF cfg \in {"subscribed", "unlisted"} THEN <<1>>
                   ELSE IF cfg = "raced" THEN <<1, 1>> ELSE <<>>
    /\ sessions =
          IF cfg = "subscribed"
          THEN {[customer |-> 1, price |-> "price_creator_annual"]}
          ELSE IF cfg = "raced"
          THEN {[customer |-> 1, price |-> "price_starter_monthly"]}
          ELSE IF cfg = "unlisted"
          THEN {[customer |-> 1, price |-> "price_unlisted"]}
          ELSE {}
    /\ ignored = {}
    /\ lastApplied = [u \in Users |->
          IF u = 1 /\ cfg = "subscribed"
          THEN [ev |-> [kind |-> "checkout", cust |-> 1, tier |-> "creator",
                        active |-> TRUE],
                clean |-> TRUE]
          ELSE [ev |-> NoEvent, clean |-> FALSE]]
    /\ base = [u \in Users |-> accounts[u].credits_remaining]

Init == \E cfg \in Configs : InitWith(cfg)

InitHandoff == InitWith("fresh")

Next ==
    \E r \in Reqs :
       \/ TransformLoad(r)
       \/ TransformGenerate(r)
       \/ TransformCommit(r)
       \/ EnsureLoad(r)
       \/ CreateCustomer(r)
       \/ BindCommit(r)
       \/ BindReread(r)
       \/ CreateSession(r)
       \/ PostCheckoutRetrieve(r)
       \/ PostCheckoutQuery(r)
       \/ PostCheckoutCommit(r)
       \/ WebhookRejected(r)
       \/ WebhookIgnored(r)
       \/ WebhookCheckoutRetrieve(r)
       \/ WebhookCheckoutQuery(r)
       \/ WebhookCheckoutCommit(r)
       \/ WebhookSubscriptionQuery(r)
       \/ WebhookSubscriptionCommit(r)

Spec == Init /\ [][Next]_vars

\* The same requests, started from the accounts no race has touched yet.
InitSettled == \E cfg \in {"fresh", "spent", "subscribed"} : InitWith(cfg)

SpecSettled == InitSettled /\ [][Next]_vars

NextHandoff ==
    \/ MobileStart
    \/ MobileUploadGet
    \/ MobileStatus
    \/ \E r \in Reqs :
          \/ MobileUploadLoad(r)
          \/ MobileUploadCommit(r)

SpecHandoff == InitHandoff /\ [][NextHandoff]_vars

(***************************************************************************)
(* One client: user 1 posts to /transform again and again, each request    *)
(* sent after the answer to the one before, and nothing else happens.      *)
(***************************************************************************)
\* The answer has been received; the next request can be sent.
NextRequest ==
    /\ reqs[1].pc = "done"
    /\ reqs' = [reqs EXCEPT ![1] = Idle]
    /\ UNCHANGED resp
    /\ UNCHANGED_LEDGER /\ UNCHANGED_HANDOFF

\* login_user(user): the requests carry the session of user 1.
TransformLoadAsClient ==
    /\ TransformLoad(1)
    /\ reqs'[1].user \in {1, NULL}

InitSerial == InitWith("fresh") \/ InitWith("spent")

NextSerial ==
    \/ TransformLoadAsClient
    \/ TransformGenerate(1)
    \/ TransformCommit(1)
    \/ NextRequest

SpecSerial == InitSerial /\ [][NextSerial]_vars


(***************************************************************************)
(* Properties.                                                             *)
(***************************************************************************)
\* The entitlement fields of a row.
Entitlement(row) ==
    <<row.plan_tier, row.is_subscribed, row.credits_remaining,
      row.credits_limit>>

\* This step is the commit of request r, a transform.
DebitCommits(r) ==
    /\ reqs[r].kind = "transform" /\ reqs[r].pc = "commit"
    /\ reqs'[r].pc = "done"

\* This step is the commit of request r, a reconciler event.
EventCommits(r) ==
    /\ reqs[r].kind \in {"post_checkout", "wh_checkout", "wh_subscription"}
    /\ reqs[r].pc = "commit"
    /\ reqs'[r].pc = "done"

\* C1: in every reachable state every account's credits_remaining is at
\* least 0, whatever the interleaving of spends, confirmations and webhooks.
C1_CreditsNeverNegative ==
    \A u \in Users : accounts[u].credits_remaining >= 0

\* Two spends have been committed against a balance that has reached 0.
C1_Witness ==
    \E u \in Users : accounts[u].credits_remaining = 0 /\ spends[u] >= 2

\* C2: with no grant in between, the spends that complete on an account
\* number at most floor(B / CREDITS_PER_IMAGE), B being the balance the
\* account had at its last grant (or at the start).
C2_SpendsWithinBalance ==
    \A u \in Users : spends[u] * CREDITS_PER_IMAGE <= base[u]

\* C3: a reconciler event applied to an account right after the same event
\* (same kind, customer, tier and status) was applied to it, with nothing
\* written to the row in between, leaves the row as it is.
C3_ReplayedEventChangesNothing ==
    [][\A r \in Reqs :
          (/\ EventCommits(r)
           /\ Fresh(r)
           /\ lastApplied[reqs[r].target].clean
           /\ lastApplied[reqs[r].target].ev = EventOf(r))
          => accounts'[reqs[r].target] = accounts[reqs[r].target]]_vars

\* A subscription event is about to be committed a second time in a row.
C3_Witness ==
    \E r \in Reqs :
       /\ reqs[r].kind = "wh_subscription" /\ reqs[r].pc = "commit"
       /\ Fresh(r)
       /\ lastApplied[reqs[r].target].clean
       /\ lastApplied[reqs[r].target].ev = EventOf(r)

\* C4: a checkout-completed webhook for a checkout (customer, tier) that
\* was the last one applied to the account leaves plan_tier, is_subscribed,
\* credits_remaining and credits_limit unchanged, also after spends.
C4_CheckoutWebhookReplayIsNoOp ==
    [][\A r \in Reqs :
          (/\ EventCommits(r)
           /\ reqs[r].kind = "wh_checkout"
           /\ lastApplied[reqs[r].target].ev = EventOf(r))
          => Entitlement(accounts'[reqs[r].target])
               = Entitlement(accounts[reqs[r].target])]_vars

\* C5: of the deposits made on one upload token at most one succeeds.
C5_OneDepositWins ==
    \A t \in 1..Len(tokens) : deposits[t] <= 1

\* C6: a spend that commits as the first debit after a grant leaves the
\* balance of one of the two serial orders: the granted balance, or the
\* granted balance less the cost.
C6_SpendSerializesWithGrant ==
    [][\A r \in Reqs :
          (DebitCommits(r) /\ spends[reqs[r].target] = 0)
          => accounts'[reqs[r].target].credits_remaining
               \in {base[reqs[r].target],
                    base[reqs[r].target] - CREDITS_PER_IMAGE}]_vars

\* C7: a reconciler event that runs without interleaving sets plan_tier to
\* the tier it grants and credits_remaining = credits_limit =
\* PLAN_CREDITS[tier], whatever the balance was; when the same tier was
\* granted just before, the entitlement is left as it is.
C7_GrantOverwrites ==
    [][\A r \in Reqs :
          (EventCommits(r) /\ Fresh(r))
          => LET u == reqs[r].target
                 t == GrantedTier(EventOf(r))
             IN /\ accounts'[u].plan_tier = t
                /\ accounts'[u].credits_remaining = PLAN_CREDITS[t]
                /\ accounts'[u].credits_limit = PLAN_CREDITS[t]
                /\ (lastApplied[u].clean /\ GrantedTier(lastApplied[u].ev) = t)
                     => Entitlement(accounts'[u]) = Entitlement(accounts[u])]_vars

\* A grant has overwritten the balance of an account that had spent.
C7_Witness ==
    \E u \in Users :
       /\ lastApplied[u].clean
       /\ accounts[u].generation_count > 0
       /\ accounts[u].credits_remaining = PLAN_CREDITS[accounts[u].plan_tier]
       /\ accounts[u].credits_limit = PLAN_CREDITS[accounts[u].plan_tier]

\* C8: once an account's stripe_customer_id is set, no step changes it.
C8_CustomerReferenceImmutable ==
    [][\A u \in Users :
          accounts[u].stripe_customer_id # NULL
          => accounts'[u].stripe_customer_id
               = accounts[u].stripe_customer_id]_vars

\* C9: at most one Stripe customer is created for an account, and the flows
\* of one account that have a reference in hand hold the same one.
C9_OneCustomerPerAccount ==
    /\ \A u \in Users :
          Cardinality({c \in DOMAIN customers : customers[c] = u}) <= 1
    /\ \A r1, r2 \in Reqs :
          (/\ reqs[r1].kind \in {"upgrade", "portal"}
           /\ reqs[r2].kind \in {"upgrade", "portal"}
           /\ reqs[r1].pc = "session" /\ reqs[r2].pc = "session"
           /\ reqs[r1].user = reqs[r2].user)
          => reqs[r1].cust = reqs[r2].cust

\* C10: a transform that ends at the credit check, at the missing file or at
\* a failed generation changes no account and no generation record; a record
\* is added and a generation counted only by the commit of a transform that
\* passed the credit check and whose external call returned an image.
C10_SpendOnlyOnConfirmedSuccess ==
    [][/\ \A r \in Reqs :
             (/\ reqs'[r] # reqs[r]
              /\ reqs'[r].pc = "done"
              /\ resp'.view \in {"upgrade", "index", "index_error"})
             => UNCHANGED <<accounts, generations>>
       /\ (\/ generations' # generations
           \/ \E u \in Users : accounts'[u].generation_count
                                 # accounts[u].generation_count)
          => \E r \in Reqs :
                /\ DebitCommits(r)
                /\ reqs[r].result = "image"
                /\ Authorize(reqs[r].snap)
                /\ generations' = Append(generations,
                                         [user_id |-> reqs[r].target,
                                          src |-> r])]_vars

\* A generation has failed and no record exists, no generation is counted.
C10_Witness ==
    /\ resp.view = "index_error"
    /\ generations = <<>>
    /\ \A u \in Users : accounts[u] = FreshRow

\* This step ends request r.
Answers(r) == reqs[r].pc # "done" /\ reqs'[r].pc = "done"

\* C11: a webhook that fails signature verification is answered 400 with
\* success=false and changes no account, record, customer, session or
\* token; a webhook request that changes an account is the commit of an
\* event that passed verification.
C11_UnverifiedWebhookChangesNothing ==
    [][\A r \in Reqs :
          /\ (Answers(r) /\ resp'.status = 400)
               => /\ resp'.view = "json_error"
                  /\ UNCHANGED <<accounts, generations, customers, sessions,
                                 tokens>>
          /\ (/\ Answers(r)
              /\ resp'.view \in {"json_success", "json_error"}
              /\ accounts' # accounts)
               => /\ reqs[r].kind \in {"wh_checkout", "wh_subscription"}
                  /\ reqs[r].pc = "commit"
                  /\ resp'.status = 200]_vars

\* A webhook has been rejected while a subscribed account exists.
C11_Witness ==
    /\ resp = [status |-> 400, view |-> "json_error"]
    /\ \E u \in Users : accounts[u].is_subscribed

\* C12: a checkout or subscription webhook naming a customer that no
\* account carries is acknowledged with 200 and changes no account; a
\* post_checkout() that then runs for such a customer on behalf of a
\* logged-in user leaves that account bound to the customer, subscribed to
\* the tier of the session, with credits_remaining = credits_limit =
\* PLAN_CREDITS[tier].
C12_UnboundCustomerThenConfirmation ==
    [][\A r \in Reqs :
          /\ (/\ reqs[r].kind = "wh_checkout" /\ reqs[r].pc = "query"
              /\ ByCustomer(reqs[r].cust) = {}
              /\ reqs'[r] # reqs[r])
               => /\ Answers(r)
                  /\ resp' = [status |-> 200, view |-> "json_success"]
                  /\ accounts' = accounts
          /\ (reqs[r].pc = "idle" /\ reqs'[r].kind = "wh_subscription")
               => ByCustomer(reqs'[r].cust) # {}
          /\ (Answers(r) /\ ignored' # ignored)
               => /\ resp' = [status |-> 200, view |-> "json_success"]
                  /\ accounts' = accounts
          /\ (/\ reqs[r].kind = "post_checkout" /\ EventCommits(r)
              /\ Fresh(r)
              /\ ByCustomer(reqs[r].cust) = {})
               => LET row == accounts'[reqs[r].target]
                  IN /\ row.stripe_customer_id = reqs[r].cust
                     /\ row.is_subscribed
                     /\ row.plan_tier = reqs[r].tier
                     /\ row.credits_remaining = PLAN_CREDITS[reqs[r].tier]
                     /\ row.credits_limit = PLAN_CREDITS[reqs[r].tier]]_vars

\* A webhook for a customer no account carried has been acknowledged, and a
\* confirmation has since bound that customer to a subscribed account.
C12_Witness ==
    \E u \in Users, c \in ignored :
       /\ accounts[u].stripe_customer_id = c
       /\ accounts[u].is_subscribed
       /\ lastApplied[u].clean
       /\ lastApplied[u].ev.kind = "checkout" /\ lastApplied[u].ev.cust = c
       /\ accounts[u].credits_remaining = PLAN_CREDITS[accounts[u].plan_tier]

\* The generations an account's balance B pays for.
Affordable(B) == B \div CREDITS_PER_IMAGE

\* The generations a free account had counted when its balance was B.
CountedAt(B) == Affordable(PLAN_CREDITS["free"]) - Affordable(B)

\* C13: a client that sends one transform after the other, starting from
\* balance B with no grant in between, has after k successful generations
\* the balance B - 500 * k and k more generations counted, for every
\* k <= floor(B / 500); a request is turned away at the credit check only
\* when floor(B / 500) generations have succeeded (from a fresh free
\* account: twenty succeed, the balance is then 0, the twenty-first fails).
C13_SequentialGenerations ==
    /\ \A u \in Users :
          /\ spends[u] <= Affordable(base[u])
          /\ accounts[u].credits_remaining
               = base[u] - CREDITS_PER_IMAGE * spends[u]
          /\ accounts[u].generation_count = CountedAt(base[u]) + spends[u]
    /\ resp.view = "upgrade" => spends[1] = Affordable(base[1])
    /\ \A r \in Reqs :
          (reqs[r].kind = "transform" /\ reqs[r].pc \in {"generate", "commit"})
          => spends[reqs[r].target] < Affordable(base[reqs[r].target])

\* Twenty generations have succeeded on the fresh free account, its balance
\* is 0 and the twenty-first request has been sent to the upgrade page.
C13_Witness ==
    /\ base[1] = PLAN_CREDITS["free"]
    /\ spends[1] = 20
    /\ accounts[1].generation_count = 20
    /\ accounts[1].credits_remaining = 0
    /\ resp = [status |-> 302, view |-> "upgrade"]

\* A deposit admitted on token t has not committed yet.
DepositInFlight(t) ==
    \E r \in Reqs : /\ reqs[r].kind = "mobile_upload"
                     /\ reqs[r].pc = "commit"
                     /\ reqs[r].target = t

\* C14: a deposit is admitted only on a token that exists and is unused
\* when the request arrives; a deposit answered 410 changes no token; a
\* deposit that arrives after one has succeeded on the token is answered
\* 410, and the token's image_path and used flag stay as the successful
\* deposit left them.
C14_RejectedDepositChangesNothing ==
    [][/\ \A r \in Reqs :
             /\ (reqs[r].pc = "idle" /\ reqs'[r].kind = "mobile_upload")
                  => /\ Known(reqs'[r].target)
                     /\ ~tokens[reqs'[r].target].used
             /\ (Answers(r) /\ resp'.status = 410)
                  => /\ resp'.view = "expired"
                     /\ UNCHANGED <<tokens, deposits, accounts, generations>>
             /\ (Answers(r) /\ reqs[r].pc = "idle" /\ resp'.status # 410)
                  => \E t \in 1..Len(tokens) : ~tokens[t].used
       /\ \A t \in 1..Len(tokens) :
             /\ (refused'[t] /\ ~refused[t]) => tokens[t].used
             /\ (tokens[t].used /\ ~DepositInFlight(t))
                  => tokens'[t] = tokens[t]]_vars

\* A deposit has succeeded on a token, a later one on the same token has
\* been answered 410, and the token holds the artifact of the first.
C14_Witness ==
    \E t \in 1..Len(tokens) :
       /\ refused[t]
       /\ deposits[t] = 1
       /\ tokens[t].used
       /\ tokens[t].image_path = UploadPath(t, "a.jpg")

\* C15: a poll on a token answers ready exactly when a deposit on it has
\* succeeded, and from then on every poll gives the same answer: ready
\* never turns back to pending and the artifact never changes.
C15_PollTurnsReadyOnce ==
    [][\A t \in 1..Len(tokens) :
          /\ StatusAnswer(t).ready <=> deposits[t] > 0
          /\ StatusAnswer(t).ready => StatusAnswer(t)' = StatusAnswer(t)]_vars

\* C16: a poll changes no upload token, account or generation record,
\* whether the token it names is unknown, pending or ready; its answer is
\* the state of the token it names, and it is 404 not_found exactly when
\* no token with that identifier exists.
C16_PollIsReadOnly ==
    [][(resp'.view = "json_status" /\ <<resp, polled>>' # <<resp, polled>>)
       => /\ UNCHANGED <<tokens, accounts, generations, deposits>>
          /\ \E t \in TokenArgs :
                /\ polled' = StatusAnswer(t)
                /\ resp'.status = IF Known(t) THEN 200 ELSE 404
          /\ resp'.status = 404 <=> ~polled'.ok]_vars

\* A poll has answered ready with the artifact of a used token.
C16_Witness ==
    /\ resp = [status |-> 200, view |-> "json_status"]
    /\ polled.ready
    /\ \E t \in 1..Len(tokens) :
          tokens[t].used /\ polled.image_url = tokens[t].image_path

\* The Generation records of account u.
RecordsOf(u) ==
    Cardinality({i \in DOMAIN generations : generations[i].user_id = u})

\* C17: no account has more generations counted than it has Generation
\* records, wherever the requests in flight stop; a step of a transform
\* that changes the account's row adds the generation's record in the same
\* step, so the record is never persisted after the debit.
C17_NoBilledPhantom ==
    [][/\ \A u \in Users : accounts'[u].generation_count <= RecordsOf(u)'
       /\ \A r \in Reqs :
             (/\ reqs[r].kind = "transform"
              /\ reqs'[r] # reqs[r]
              /\ accounts' # accounts)
             => generations' = Append(generations,
                                      [user_id |-> reqs[r].target,
                                       src |-> r])]_vars

\* One generation has been recorded and debited while another transform of
\* the same account has its image and has not committed yet.
C17_Witness ==
    \E r \in Reqs :
       /\ reqs[r].kind = "transform" /\ reqs[r].pc = "commit"
       /\ spends[reqs[r].target] = 1
       /\ RecordsOf(reqs[r].target) = 1
       /\ accounts[reqs[r].target].generation_count = 1

\* C18: on an account that no grant has touched, after N successful
\* generations, however the N requests interleave, credits_remaining is
\* max(0, B - 500 * N) and generation_count has grown by N.
C18_DebitLosesNoUpdate ==
    \A u \in Users :
       lastApplied[u].ev = NoEvent
       => /\ accounts[u].credits_remaining
               = Max(0, base[u] - CREDITS_PER_IMAGE * spends[u])
          /\ accounts[u].generation_count = CountedAt(base[u]) + spends[u]

\* C19: a subscription updated/deleted webhook for a bound customer, run
\* without interleaving, leaves the account subscribed to the tier of the
\* event's price with credits_remaining = credits_limit =
\* PLAN_CREDITS[tier] when the status is active or trialing, and
\* unsubscribed on 'free' with PLAN_CREDITS['free'] for every other
\* status, whatever the row held; the customer reference and the
\* generation count are left alone.
C19_SubscriptionEventOutcome ==
    [][\A r \in Reqs :
          (/\ reqs[r].kind = "wh_subscription"
           /\ EventCommits(r)
           /\ Fresh(r))
          => LET old == accounts[reqs[r].target]
                 new == accounts'[reqs[r].target]
                 t == IF reqs[r].active THEN reqs[r].tier ELSE "free"
             IN /\ new.is_subscribed = reqs[r].active
                /\ new.plan_tier = t
                /\ new.credits_remaining = PLAN_CREDITS[t]
                /\ new.credits_limit = PLAN_CREDITS[t]
                /\ new.stripe_customer_id = old.stripe_customer_id
                /\ new.generation_count = old.generation_count
                /\ resp' = [status |-> 200, view |-> "json_success"]]_vars

\* A subscription event has moved a bound account to the enterprise tier.
C19_Witness ==
    \E u \in Users :
       /\ lastApplied[u].clean
       /\ lastApplied[u].ev.kind = "subscription"
       /\ lastApplied[u].ev.active
       /\ accounts[u].stripe_customer_id = lastApplied[u].ev.cust
       /\ accounts[u].is_subscribed
       /\ accounts[u].plan_tier = "enterprise"
       /\ accounts[u].credits_remaining = PLAN_CREDITS["enterprise"]

\* C20: in every state a token is used exactly when its image_path is set;
\* no step turns used back to false; no step changes an image_path that is
\* set.
C20_TokenSetOnce ==
    [][\A t \in 1..Len(tokens) :
          /\ tokens'[t].used <=> tokens'[t].image_path # NoPath
          /\ tokens[t].used => tokens'[t].used
          /\ tokens[t].image_path # NoPath
               => tokens'[t].image_path = tokens[t].image_path]_vars

\* This step takes request r from arrival to the lookup of the account.
EventArrives(r) ==
    /\ reqs[r].pc = "idle"
    /\ reqs'[r].kind \in {"post_checkout", "wh_checkout", "wh_subscription"}

\* C21: an event whose price is missing or not in PRICE_ID_TO_TIER is
\* taken up with the tier 'creator' on each of the three paths and, run
\* without interleaving, leaves the account subscribed with
\* credits_remaining = credits_limit = PLAN_CREDITS['creator'] (a
\* subscription event of inactive status leaves it on 'free'); the tier of
\* every event, and every plan_tier written, is a key of PLAN_CREDITS.
C21_UnknownPriceDefaultsToCreator ==
    [][\A r \in Reqs :
          /\ EventArrives(r)
               => /\ reqs'[r].tier \in Tiers
                  /\ reqs'[r].price \notin DOMAIN PRICE_ID_TO_TIER
                       => reqs'[r].tier = "creator"
          /\ EventCommits(r)
               => /\ accounts'[reqs[r].target].plan_tier \in Tiers
                  /\ resp'.status \in {200, 302}
          /\ (/\ EventCommits(r)
              /\ Fresh(r)
              /\ reqs[r].active
              /\ reqs[r].price \notin DOMAIN PRICE_ID_TO_TIER)
               => LET row == accounts'[reqs[r].target]
                  IN /\ row.is_subscribed
                     /\ row.plan_tier = "creator"
                     /\ row.credits_remaining = PLAN_CREDITS["creator"]
                     /\ row.credits_limit = PLAN_CREDITS["creator"]]_vars

\* The only Checkout session is for a price outside the catalog, and its
\* completion has left the customer's account subscribed on 'creator'.
C21_Witness ==
    /\ sessions = {[customer |-> 1, price |-> "price_unlisted"]}
    /\ lastApplied[1].clean
    /\ lastApplied[1].ev.kind = "checkout"
    /\ accounts[1].is_subscribed
    /\ accounts[1].plan_tier = "creator"
    /\ accounts[1].credits_remaining = PLAN_CREDITS["creator"]
    /\ accounts[1].credits_limit = PLAN_CREDITS["creator"]

\* C22: in every state, every account is subscribed exactly when its
\* plan_tier is not 'free', and its credits_limit is PLAN_CREDITS[plan_tier].
C22_TierFlagCapConsistent ==
    \A u \in Users :
       /\ accounts[u].is_subscribed <=> accounts[u].plan_tier # "free"
       /\ accounts[u].credits_limit = PLAN_CREDITS[accounts[u].plan_tier]

\* C23: in every state, every account's credits_remaining is at most its
\* credits_limit.
C23_BalanceWithinCap ==
    \A u \in Users : accounts[u].credits_remaining <= accounts[u].credits_limit

\* C24: after every step each account's generation_count is the number of
\* its Generation records, and the records that existed are all still
\* there, unchanged, in front of the new ones.
C24_CountMatchesRecords ==
    [][/\ \A u \in Users : accounts'[u].generation_count = RecordsOf(u)'
       /\ Len(generations') >= Len(generations)
       /\ SubSeq(generations', 1, Len(generations)) = generations]_vars

\* C25: in every state no two accounts carry the same customer reference,
\* so a lookup by customer finds at most one account.
C25_CustomerReferenceUnique ==
    \A c \in 1..Len(customers) : Cardinality(ByCustomer(c)) <= 1

\* C26: a step of a request changes no account other than the one the
\* request works on: for a transform (and a bind) that is the account of
\* the requesting user, for a webhook an account that carried the event's
\* customer when it was looked up, for a post_checkout such an account or,
\* when there is none, the logged-in one.
C26_OtherAccountsUntouched ==
    [][\A r \in Reqs :
          /\ reqs'[r] # reqs[r]
               => \A u \in Users :
                     u # reqs[r].target => accounts'[u] = accounts[u]
          /\ (reqs'[r].pc = "commit" /\ reqs[r].pc # "commit")
               => CASE reqs'[r].kind = "transform"
                         -> reqs'[r].target = reqs'[r].user
                    [] reqs'[r].kind \in {"wh_checkout", "wh_subscription"}
                         -> reqs'[r].target \in ByCustomer(reqs'[r].cust)
                    [] reqs'[r].kind = "post_checkout"
                         -> \/ reqs'[r].target \in ByCustomer(reqs'[r].cust)
                            \/ /\ ByCustomer(reqs'[r].cust) = {}
                               /\ reqs'[r].target = reqs'[r].user
                    [] OTHER -> TRUE]_vars

\* An event and then a spend have been committed on one account, and every
\* other account is as signup left it.
C26_Witness ==
    \E u \in Users :
       /\ lastApplied[u].ev.kind = "subscription"
       /\ spends[u] = 1
       /\ accounts[u].generation_count = 1
       /\ accounts[u].stripe_customer_id # NULL
       /\ \A v \in Users \ {u} : accounts[v] = FreshRow


=============================================================================
